---- MODULE Spec2Model ----
(***************************************************************************)
(* A model of null-statement-parser: the two normalizers and the           *)
(* CSV/statement merge (internal/parser), and the account resolution of    *)
(* cmd/main.go with the account mapping store (internal/mapping).          *)
(*                                                                         *)
(* Strings are sequences of one-character strings.  A *string pointer is   *)
(* <<>> for nil and <<s>> for a pointer to s.  A transaction carries the   *)
(* identity of its Go pointer in the field ptr.                            *)
(***************************************************************************)
EXTENDS Integers, Sequences, FiniteSets, TLC

VARIABLES
    statementTxs,   \* MergeCSVWithStatements: the statementTxs argument
    csvTxs,         \* MergeCSVWithStatements: the csvTxs argument
    result,         \* MergeCSVWithStatements: the returned slice
    mergePc,        \* "call" before the call, "done" after it returned
    transactions,   \* main: the transactions to resolve and upload
    accounts,       \* main: the account snapshot (GetAccounts, then appended to)
    Mappings,       \* Store.Mappings of the process
    file,           \* account-mappings.txt on disk
    askedMappings,  \* main: the mapping keys the first pass has visited
    pc,             \* main: "start", "pass1", "pass2", "done" or "fatal"
    idx,            \* main: the index of the transaction the current pass is at
    fatal,          \* the log.Fatalf that ended the process, "" while none did
    prompts,        \* the keys PromptForAccountMapping was called for in this run
    selected,       \* the [key, id] of the accounts the prompt selected in this run
    created,        \* the [key, id] of the accounts CreateAccount returned in this run
    saved,          \* the [key, account, name] whose AddMapping returned nil in this run
    persisted,      \* the [key, name] of the lines "account: name" that the
                    \* earlier run saved for a key and left in the file
    loaded,         \* this run's snapshot and store as NewStore returned
    later,          \* FALSE in the first run, TRUE in a run after it
    jsonTransactions, \* parseJSONOutput: result.Transactions of the Python output
    csvRecords,     \* ParseCSV: records[1:], the rows under the header
    parsePc         \* main: "pdf", "csv", "done" or "fatal" while it parses

mergeVars == <<statementTxs, csvTxs, result, mergePc>>
resolveVars == <<transactions, accounts, Mappings, file, askedMappings, pc, idx,
                 fatal, prompts, created, selected, saved, persisted, loaded, later>>
parseVars == <<jsonTransactions, csvRecords, parsePc>>
vars == <<mergeVars, resolveVars, parseVars>>

----------------------------------------------------------------------------
(* Bounds of the merge inputs                                              *)

\* At most MaxTxs transactions over the two inputs of one merge.
MaxTxs == 3
\* Transaction dates are the days 1..MaxDate.
MaxDate == 2
\* One run resolves 1..MaxResolveTxs transactions.
MaxResolveTxs == 2
\* GetAccounts returns at most MaxSnapshot accounts to the first run.
MaxSnapshot == 2
\* The Python output holds at most MaxJsonTxs transactions, the CSV file at
\* most MaxCsvRows rows under its header.
MaxJsonTxs == 2
MaxCsvRows == 2
\* A store takes at most MaxAddMappings calls of AddMapping.
MaxAddMappings == 2
\* A run that is followed by a second run resolves 1..MaxRerunTxs transactions
\* and starts from at most MaxRerunSnapshot accounts.
MaxRerunTxs == 2
MaxRerunSnapshot == 1

----------------------------------------------------------------------------
(* Strings and pointers                                                    *)

NilStr == <<>>
Ptr(s) == <<s>>
Deref(p) == p[1]

Range(s) == {s[i] : i \in 1..Len(s)}

\* strings.HasSuffix(s, suffix)
HasSuffix(s, suffix) ==
    /\ Len(suffix) <= Len(s)
    /\ SubSeq(s, Len(s) - Len(suffix) + 1, Len(s)) = suffix

----------------------------------------------------------------------------
(* internal/parser: the merge                                              *)

\* GetLast4Digits(accountNumber)
GetLast4Digits(accountNumber) ==
    IF Len(accountNumber) >= 4
    THEN SubSeq(accountNumber, Len(accountNumber) - 3, Len(accountNumber))
    ELSE accountNumber

MatchesAccountByKey(tx, last4) ==
    /\ tx.StatementAccountNumber # NilStr
    /\ GetLast4Digits(Deref(tx.StatementAccountNumber)) = last4

\* MatchesAccount(tx, last4)
MatchesAccount(tx, last4) ==
    IF tx.StatementAccountNumber = NilStr
    THEN FALSE
    ELSE LET accountNum == Deref(tx.StatementAccountNumber)
         IN  HasSuffix(accountNum, last4) \/ accountNum = last4

\* A nil *time.Time
NilDate == -1

\* t.After(u) on two dates
After(t, u) == t > u

RECURSIVE LatestFrom(_, _, _, _)
\* The loop of FindLatestTransactionDate from index i on, latest so far given.
LatestFrom(txs, accountLast4, i, latest) ==
    IF i > Len(txs)
    THEN latest
    ELSE LET tx == txs[i]
         IN  IF MatchesAccount(tx, accountLast4)
                /\ (latest = NilDate \/ After(tx.TxDate, latest))
             THEN LatestFrom(txs, accountLast4, i + 1, tx.TxDate)
             ELSE LatestFrom(txs, accountLast4, i + 1, latest)

\* FindLatestTransactionDate(txs, accountLast4)
FindLatestTransactionDate(txs, accountLast4) ==
    LatestFrom(txs, accountLast4, 1, NilDate)

\* The keys of csvByAccount: a group per last-4 key of a transaction that
\* has an account number.
CsvAccountKeys(txs) ==
    {GetLast4Digits(Deref(txs[i].StatementAccountNumber)) :
        i \in {j \in 1..Len(txs) : txs[j].StatementAccountNumber # NilStr}}

\* csvByAccount[last4]: the transactions of the group, in input order.
CsvByAccount(txs, last4) ==
    SelectSeq(txs, LAMBDA tx :
        /\ tx.StatementAccountNumber # NilStr
        /\ GetLast4Digits(Deref(tx.StatementAccountNumber)) = last4)

IncludeTxNotBefore(tx, cutoff) == cutoff = NilDate \/ tx.TxDate >= cutoff

\* The test of the filter loop: no cutoff, or after the cutoff.
IncludeTx(tx, cutoff) == cutoff = NilDate \/ After(tx.TxDate, cutoff)

\* The inner loop: the transactions of one group that pass the filter.
FilterGroup(stmts, txs, last4) ==
    LET cutoff == FindLatestTransactionDate(stmts, last4)
    IN  SelectSeq(CsvByAccount(txs, last4), LAMBDA tx : IncludeTx(tx, cutoff))

\* The orders in which a Go range statement may visit the keys of a map.
MapOrders(keys) ==
    {o \in [1..Cardinality(keys) -> keys] :
        \A i, j \in 1..Cardinality(keys) : i # j => o[i] # o[j]}

RECURSIVE NewTransactions(_, _, _, _)
\* The outer filter loop over csvByAccount, visiting the keys in order.
NewTransactions(stmts, txs, order, i) ==
    IF i > Len(order)
    THEN <<>>
    ELSE FilterGroup(stmts, txs, order[i]) \o NewTransactions(stmts, txs, order, i + 1)

CombineCsvFirst(stmts, newTransactions) == newTransactions \o stmts

\* result = append(append(result, statementTxs...), newTransactions...)
Combine(stmts, newTransactions) == stmts \o newTransactions

\* MergeCSVWithStatements(statementTxs, csvTxs), for one iteration order
MergeCSVWithStatements(stmts, txs, order) ==
    Combine(stmts, NewTransactions(stmts, txs, order, 1))

----------------------------------------------------------------------------
(* Strings of the account resolution                                       *)

\* The lower-case letter of an upper-case ASCII letter.
LowerOf ==
    [A |-> "a", B |-> "b", C |-> "c", D |-> "d", E |-> "e", F |-> "f",
     G |-> "g", H |-> "h", I |-> "i", J |-> "j", K |-> "k", L |-> "l",
     M |-> "m", N |-> "n", O |-> "o", P |-> "p", Q |-> "q", R |-> "r",
     S |-> "s", T |-> "t", U |-> "u", V |-> "v", W |-> "w", X |-> "x",
     Y |-> "y", Z |-> "z"]

FoldChar(c) == IF c \in DOMAIN LowerOf THEN LowerOf[c] ELSE c

\* strings.EqualFold(s, t), on ASCII
EqualFold(s, t) ==
    /\ Len(s) = Len(t)
    /\ \A i \in 1..Len(s) : FoldChar(s[i]) = FoldChar(t[i])

\* strings.HasPrefix(s, prefix)
HasPrefix(s, prefix) ==
    /\ Len(prefix) <= Len(s)
    /\ SubSeq(s, 1, Len(prefix)) = prefix

IsSpace(c) == c \in {" ", "\t", "\r", "\n"}

RECURSIVE TrimLeft(_)
TrimLeft(s) ==
    IF s # <<>> /\ IsSpace(Head(s)) THEN TrimLeft(Tail(s)) ELSE s

RECURSIVE TrimRight(_)
TrimRight(s) ==
    IF s # <<>> /\ IsSpace(s[Len(s)])
    THEN TrimRight(SubSeq(s, 1, Len(s) - 1))
    ELSE s

\* strings.TrimSpace(s)
TrimSpace(s) == TrimRight(TrimLeft(s))

\* strings.SplitN(s, sep, 2) for a one-character separator
SplitN2(s, sep) ==
    LET at == {i \in 1..Len(s) : s[i] = sep}
    IN  IF at = {}
        THEN <<s>>
        ELSE LET i == CHOOSE k \in at : \A l \in at : k <= l
             IN  <<SubSeq(s, 1, i - 1), SubSeq(s, i + 1, Len(s))>>

RECURSIVE FormatInt(_)
\* strconv.FormatInt(n, 10) for n >= 0
FormatInt(n) ==
    LET digit == <<"0", "1", "2", "3", "4", "5", "6", "7", "8", "9">>[(n % 10) + 1]
    IN  IF n < 10 THEN <<digit>> ELSE Append(FormatInt(n \div 10), digit)

DigitValue(c) ==
    CASE c = "0" -> 0 [] c = "1" -> 1 [] c = "2" -> 2 [] c = "3" -> 3
      [] c = "4" -> 4 [] c = "5" -> 5 [] c = "6" -> 6 [] c = "7" -> 7
      [] c = "8" -> 8 [] c = "9" -> 9 [] OTHER -> -1

RECURSIVE ParseDigits(_, _)
ParseDigits(s, acc) ==
    IF s = <<>> THEN acc ELSE ParseDigits(Tail(s), acc * 10 + DigitValue(Head(s)))

\* strconv.ParseInt(s, 10, 64) with the error dropped: 0 when s is no number
ParseInt(s) ==
    IF s = <<>> \/ \E i \in 1..Len(s) : DigitValue(s[i]) < 0
    THEN 0
    ELSE ParseDigits(s, 0)

----------------------------------------------------------------------------
(* internal/mapping: the mapping store                                     *)

\* make(map[string]string)
EmptyMap == <<>>

\* The first line Save writes.
HeaderLine ==
    <<"#", " ", "A", "c", "c", "o", "u", "n", "t", " ",
      "m", "a", "p", "p", "i", "n", "g", "s", ":", " ",
      "s", "t", "a", "t", "e", "m", "e", "n", "t", "_",
      "a", "c", "c", "o", "u", "n", "t", " ", "-", ">", " ",
      "a", "r", "i", "a", "n", "_", "a", "c", "c", "o", "u", "n", "t">>

\* fmt.Sprintf("%s: %s\n", statementAccount, arianAccount), without the newline
MappingLine(statementAccount, arianAccount) ==
    statementAccount \o <<":", " ">> \o arianAccount

\* The lines Store.Save writes, ranging over the map in the given order.
SaveLines(m, order) ==
    <<HeaderLine>> \o [i \in 1..Len(order) |-> MappingLine(order[i], m[order[i]])]

MapPutDropped(m, k, v) == m

\* s.Mappings[k] = v
MapPut(m, k, v) == (k :> v) @@ m

\* The body of the scanner loop of Store.Load for one line.
LoadLine(m, text) ==
    LET line == TrimSpace(text)
        parts == SplitN2(line, ":")
    IN  IF line = <<>> \/ HasPrefix(line, <<"#">>)
        THEN m
        ELSE IF Len(parts) # 2
        THEN m
        ELSE MapPut(m, TrimSpace(parts[1]), TrimSpace(parts[2]))

RECURSIVE LoadLines(_, _, _)
\* The scanner loop of Store.Load from line i on.
LoadLines(m, lines, i) ==
    IF i > Len(lines) THEN m ELSE LoadLines(LoadLine(m, lines[i]), lines, i + 1)

\* NewStore(): an empty map, loaded from the file when the file exists.
NewStore(f) ==
    IF f.exists THEN LoadLines(EmptyMap, f.lines, 1) ELSE EmptyMap

\* Store.FindMapping(statementAccountNumber)
FindMapping(m, statementAccountNumber) ==
    IF statementAccountNumber \in DOMAIN m THEN m[statementAccountNumber] ELSE <<>>

\* A nil *pb.Account
NilAccount == [Id |-> 0, Name |-> <<>>, Type |-> "nil"]

\* The account a loop over accs returns at its first index in hits, else nil.
FirstAccount(accs, hits) ==
    IF hits = {}
    THEN NilAccount
    ELSE accs[CHOOSE i \in hits : \A j \in hits : i <= j]

\* Store.ResolveAccount(arianAccountName, accounts)
ResolveAccount(arianAccountName, accs) ==
    IF arianAccountName = <<>>
    THEN NilAccount
    ELSE FirstAccount(accs,
             {i \in 1..Len(accs) : EqualFold(accs[i].Name, arianAccountName)})

----------------------------------------------------------------------------
(* cmd/main.go: helpers of the account resolution                          *)

Visa == <<"v", "i", "s", "a">>
Savings == <<"s", "a", "v", "i", "n", "g", "s">>
Chequing == <<"c", "h", "e", "q", "u", "i", "n", "g">>
Unknown == <<"U", "n", "k", "n", "o", "w", "n">>

\* convertToAccountType(accountType)
convertToAccountType(accountType) ==
    CASE accountType = Visa -> "ACCOUNT_CREDIT_CARD"
      [] accountType = Savings -> "ACCOUNT_SAVINGS"
      [] accountType = Chequing -> "ACCOUNT_CHEQUING"
      [] OTHER -> "ACCOUNT_UNSPECIFIED"

\* findMatchingAccount(accounts, accountName, accountType)
findMatchingAccount(accs, accountName, accountType) ==
    LET expectedType == convertToAccountType(accountType)
    IN  FirstAccount(accs,
            {i \in 1..Len(accs) : /\ accs[i].Type = expectedType
                                  /\ EqualFold(accs[i].Name, accountName)})

\* The accountName both passes derive from a transaction.
AccountName(tx) ==
    IF tx.StatementAccountNumber # NilStr /\ Deref(tx.StatementAccountNumber) # <<>>
    THEN Deref(tx.StatementAccountNumber)
    ELSE Unknown

\* mappingKey := accountName + "|" + tx.StatementAccountType
MappingKey(tx) == AccountName(tx) \o <<"|">> \o tx.StatementAccountType

\* The resolution does not run in the specification of the merge.
ResolveIdle ==
    /\ transactions = <<>>
    /\ accounts = <<>>
    /\ Mappings = EmptyMap
    /\ file = [exists |-> FALSE, lines |-> <<>>]
    /\ askedMappings = {}
    /\ pc = "idle"
    /\ idx = 0
    /\ fatal = ""
    /\ prompts = <<>>
    /\ created = {}
    /\ selected = {}
    /\ saved = {}
    /\ persisted = {}
    /\ loaded = [accounts |-> <<>>, Mappings |-> EmptyMap]
    /\ later = FALSE

\* The parsers do not run in the specifications of the merge and the resolution.
ParseIdle ==
    /\ jsonTransactions = <<>>
    /\ csvRecords = <<>>
    /\ parsePc = "idle"

----------------------------------------------------------------------------
(* Inputs of the merge                                                     *)

\* Account numbers as the two sources report them: none, fewer than four
\* characters, a statement's last four digits, a CSV's full number.
MergeAccounts ==
    { [number |-> NilStr, type |-> "chequing"],
      [number |-> Ptr(<<"4", "6">>), type |-> "savings"],
      [number |-> Ptr(<<"5", "5", "4", "6">>), type |-> "visa"],
      [number |-> Ptr(<<"1", "5", "5", "4", "6">>), type |-> "visa"] }

TxShapes ==
    { [StatementAccountNumber |-> a.number,
       StatementAccountType |-> a.type,
       TxDate |-> d] : a \in MergeAccounts, d \in 1..MaxDate }

\* The slices of up to n transactions whose pointers are base+1 .. base+n.
TxSlices(n, base) ==
    UNION {
        { [i \in 1..k |->
             [ptr |-> base + i,
              StatementAccountNumber |-> raw[i].StatementAccountNumber,
              StatementAccountType |-> raw[i].StatementAccountType,
              TxDate |-> raw[i].TxDate]] : raw \in [1..k -> TxShapes] }
        : k \in 0..n }

InitMerge ==
    /\ statementTxs \in TxSlices(MaxTxs, 0)
    /\ csvTxs \in TxSlices(MaxTxs - Len(statementTxs), Len(statementTxs))
    /\ result = <<>>
    /\ mergePc = "call"
    /\ ResolveIdle
    /\ ParseIdle

\* main: transactions = parser.MergeCSVWithStatements(transactions, csvTransactions)
Merge ==
    /\ mergePc = "call"
    /\ \E order \in MapOrders(CsvAccountKeys(csvTxs)) :
           result' = MergeCSVWithStatements(statementTxs, csvTxs, order)
    /\ mergePc' = "done"
    /\ UNCHANGED <<statementTxs, csvTxs, resolveVars, parseVars>>

NextMerge == Merge

SpecMerge == InitMerge /\ [][NextMerge]_vars

----------------------------------------------------------------------------
(* cmd/main.go: the account resolution of one process run                  *)

\* The files a Save that does not complete leaves: os.Create has truncated
\* the file, and the buffered lines reached it up to some line or not at all.
PartialFiles(m) ==
    UNION {
        {[exists |-> TRUE, lines |-> SubSeq(SaveLines(m, order), 1, k)] :
            k \in 0..Len(order)}
        : order \in MapOrders(DOMAIN m) }

\* The file os.Create leaves before anything is written to it.
TruncatedFile == [exists |-> TRUE, lines |-> <<>>]

\* The outcomes of Store.Save: the file it leaves and the error it returns.
\* os.Create may fail and leave the file as it was.  The deferred
\* writer.Flush() may fail after Save has set its result: the buffered lines
\* do not reach the truncated file and Save returns nil.
SaveOutcomes(m, f) ==
    {[file |-> [exists |-> TRUE, lines |-> SaveLines(m, order)], err |-> FALSE] :
        order \in MapOrders(DOMAIN m)}
    \cup {[file |-> f, err |-> TRUE]}
    \cup {[file |-> TruncatedFile, err |-> FALSE]}

AddMappingUndoOnError(m, k, v, f) ==
    {[Mappings |-> IF out.err THEN m ELSE MapPut(m, k, v),
      file |-> out.file, err |-> out.err] :
        out \in SaveOutcomes(MapPut(m, k, v), f)}

\* The outcomes of Store.AddMapping(k, v): the map, the file and the error.
AddMapping(m, k, v, f) ==
    {[Mappings |-> MapPut(m, k, v), file |-> out.file, err |-> out.err] :
        out \in SaveOutcomes(MapPut(m, k, v), f)}

NeverVisited(asked, mappingKey) == FALSE

FirstPassMatchNoStore(tx, m, accs) ==
    findMatchingAccount(accs, AccountName(tx), tx.StatementAccountType)

\* The account the first pass has for a transaction before it prompts:
\* the saved mapping resolved by name, else the match by name and type.
FirstPassMatch(tx, m, accs) ==
    LET accountName == AccountName(tx)
        arianAccountName == FindMapping(m, accountName)
        mapped == IF arianAccountName # <<>>
                  THEN ResolveAccount(arianAccountName, accs)
                  ELSE NilAccount
    IN  IF mapped = NilAccount
        THEN findMatchingAccount(accs, accountName, tx.StatementAccountType)
        ELSE mapped

\* if askedMappings[mappingKey] { continue }
Visited(asked, mappingKey) == mappingKey \in asked

\* The first pass moves on to the next transaction, or the second pass starts.
FirstPassAdvance ==
    IF idx = Len(transactions)
    THEN pc' = "pass2" /\ idx' = 1
    ELSE pc' = "pass1" /\ idx' = idx + 1

LogPrintf(reason) == fatal' = reason /\ FirstPassAdvance

\* log.Fatalf(reason)
Fatalf(reason) == pc' = "fatal" /\ fatal' = reason /\ idx' = idx

\* mappingStore, err := mapping.NewStore()
StartRun ==
    /\ pc = "start"
    /\ Mappings' = NewStore(file)
    /\ loaded' = [accounts |-> accounts, Mappings |-> Mappings']
    /\ pc' = "pass1"
    /\ idx' = 1
    /\ UNCHANGED <<transactions, accounts, file, askedMappings, fatal, prompts,
                   created, selected, saved, persisted, later>>

\* First pass: the key of the transaction was visited before.
FirstPassVisited ==
    /\ pc = "pass1"
    /\ Visited(askedMappings, MappingKey(transactions[idx]))
    /\ FirstPassAdvance
    /\ UNCHANGED <<transactions, accounts, Mappings, file, askedMappings, fatal,
                   prompts, created, selected, saved, persisted, loaded, later>>

\* First pass: a new key that the saved mapping or the name and type resolve.
FirstPassMatched ==
    /\ pc = "pass1"
    /\ ~Visited(askedMappings, MappingKey(transactions[idx]))
    /\ FirstPassMatch(transactions[idx], Mappings, accounts) # NilAccount
    /\ askedMappings' = askedMappings \cup {MappingKey(transactions[idx])}
    /\ FirstPassAdvance
    /\ UNCHANGED <<transactions, accounts, Mappings, file, fatal, prompts,
                   created, selected, saved, persisted, loaded, later>>

\* The first pass reaches mapping.PromptForAccountMapping for the transaction.
Prompting ==
    /\ pc = "pass1"
    /\ ~Visited(askedMappings, MappingKey(transactions[idx]))
    /\ FirstPassMatch(transactions[idx], Mappings, accounts) = NilAccount
    /\ askedMappings' = askedMappings \cup {MappingKey(transactions[idx])}
    /\ prompts' = Append(prompts, MappingKey(transactions[idx]))

\* First pass: form.Run() fails.
FirstPassPromptFails ==
    /\ Prompting
    /\ Fatalf("mapping prompt failed")
    /\ UNCHANGED <<transactions, accounts, Mappings, file, created, selected, saved,
                   persisted, loaded, later>>

\* The identifier the server gives a new account.
NextAccountId(accs) ==
    IF accs = <<>> THEN 1
    ELSE 1 + CHOOSE m \in {accs[i].Id : i \in 1..Len(accs)} :
                 \A i \in 1..Len(accs) : accs[i].Id <= m

\* First pass: the prompt returns "create new" and CreateAccount succeeds.
FirstPassCreateNew ==
    /\ Prompting
    /\ LET tx == transactions[idx]
           accountName == AccountName(tx)
           newAccount == [Id |-> NextAccountId(accounts),
                          Name |-> accountName,
                          Type |-> convertToAccountType(tx.StatementAccountType)]
       IN  /\ accounts' = Append(accounts, newAccount)
           /\ created' = created \cup {[key |-> MappingKey(tx), id |-> newAccount.Id]}
           /\ \E out \in AddMapping(Mappings, accountName, newAccount.Name, file) :
                  /\ Mappings' = out.Mappings
                  /\ file' = out.file
                  /\ saved' = IF out.err THEN saved
                              ELSE saved \cup {[key |-> MappingKey(tx),
                                                account |-> accountName,
                                                name |-> newAccount.Name]}
    /\ FirstPassAdvance
    /\ UNCHANGED <<transactions, fatal, selected, persisted, loaded, later>>

\* First pass: the prompt returns "create new" and CreateAccount fails.
FirstPassCreateFails ==
    /\ Prompting
    /\ Fatalf("create account failed")
    /\ UNCHANGED <<transactions, accounts, Mappings, file, created, selected, saved,
                   persisted, loaded, later>>

\* First pass: the prompt returns the identifier of an existing account.
FirstPassSelectExisting ==
    /\ Prompting
    /\ \E option \in 1..Len(accounts) :
        LET tx == transactions[idx]
            accountName == AccountName(tx)
            selectedAccountID == FormatInt(accounts[option].Id)
            selectedAccountIDInt == ParseInt(selectedAccountID)
            matchedAccount ==
                FirstAccount(accounts,
                    {i \in 1..Len(accounts) : accounts[i].Id = selectedAccountIDInt})
        IN  /\ selected' = selected \cup {[key |-> MappingKey(tx),
                                            id |-> selectedAccountIDInt]}
            /\ IF matchedAccount = NilAccount
               THEN /\ Fatalf("selected account not found")
                    /\ UNCHANGED <<Mappings, file, saved>>
               ELSE /\ \E out \in AddMapping(Mappings, accountName,
                                             matchedAccount.Name, file) :
                           /\ Mappings' = out.Mappings
                           /\ file' = out.file
                           /\ saved' = IF out.err THEN saved
                                       ELSE saved \cup {[key |-> MappingKey(tx),
                                                         account |-> accountName,
                                                         name |-> matchedAccount.Name]}
                    /\ FirstPassAdvance
                    /\ fatal' = fatal
    /\ UNCHANGED <<transactions, accounts, created, persisted, loaded, later>>

SecondPassNoAbort(tx, m, accs) ==
    LET accountName == AccountName(tx)
        arianAccountName == FindMapping(m, accountName)
        matchedAccount ==
            IF arianAccountName = <<>>
            THEN findMatchingAccount(accs, accountName, tx.StatementAccountType)
            ELSE ResolveAccount(arianAccountName, accs)
    IN  [AccountID |-> IF matchedAccount = NilAccount
                       THEN tx.AccountID ELSE matchedAccount.Id,
         fatal |-> ""]

\* The body of the second pass for one transaction: the AccountID it assigns,
\* or the log.Fatalf it ends with.
SecondPass(tx, m, accs) ==
    LET accountName == AccountName(tx)
        arianAccountName == FindMapping(m, accountName)
        matchedAccount ==
            IF arianAccountName = <<>>
            THEN findMatchingAccount(accs, accountName, tx.StatementAccountType)
            ELSE ResolveAccount(arianAccountName, accs)
    IN  IF matchedAccount # NilAccount
        THEN [AccountID |-> matchedAccount.Id, fatal |-> ""]
        ELSE [AccountID |-> tx.AccountID,
              fatal |-> IF arianAccountName = <<>>
                        THEN "no account found for transaction"
                        ELSE "no account found for mapping"]

\* Second pass: the transaction is assigned an account.
SecondPassAssign ==
    /\ pc = "pass2"
    /\ LET out == SecondPass(transactions[idx], Mappings, accounts)
       IN  /\ out.fatal = ""
           /\ transactions' = [transactions EXCEPT ![idx].AccountID = out.AccountID]
    /\ IF idx = Len(transactions)
       THEN pc' = "done" /\ idx' = idx
       ELSE pc' = "pass2" /\ idx' = idx + 1
    /\ UNCHANGED <<accounts, Mappings, file, askedMappings, fatal, prompts,
                   created, selected, saved, persisted, loaded, later>>

\* Second pass: no account is found for the transaction.
SecondPassFatal ==
    /\ pc = "pass2"
    /\ LET out == SecondPass(transactions[idx], Mappings, accounts)
       IN  /\ out.fatal # ""
           /\ Fatalf(out.fatal)
    /\ UNCHANGED <<transactions, accounts, Mappings, file, askedMappings, prompts,
                   created, selected, saved, persisted, loaded, later>>

\* The process is killed while the first pass or the second pass runs,
\* outside Store.Save.
Crash ==
    /\ pc \in {"pass1", "pass2"}
    /\ pc' = "crashed"
    /\ UNCHANGED <<transactions, accounts, Mappings, file, askedMappings, idx,
                   fatal, prompts, created, selected, saved, persisted, loaded, later>>

\* The process is killed inside the Store.Save of the AddMapping that follows
\* a prompt: choice 0 is "create new", choice i the i-th account of the list.
CrashInSave ==
    /\ Prompting
    /\ \E choice \in 0..Len(accounts) :
        LET tx == transactions[idx]
            accountName == AccountName(tx)
            newAccount == [Id |-> NextAccountId(accounts),
                           Name |-> accountName,
                           Type |-> convertToAccountType(tx.StatementAccountType)]
            matchedAccount == IF choice = 0 THEN newAccount ELSE accounts[choice]
            mappings == MapPut(Mappings, accountName, matchedAccount.Name)
        IN  /\ accounts' = IF choice = 0 THEN Append(accounts, newAccount)
                           ELSE accounts
            /\ created' = IF choice = 0
                          THEN created \cup {[key |-> MappingKey(tx),
                                              id |-> newAccount.Id]}
                          ELSE created
            /\ selected' = IF choice = 0 THEN selected
                           ELSE selected \cup {[key |-> MappingKey(tx),
                                                id |-> matchedAccount.Id]}
            /\ Mappings' = mappings
            /\ file' \in PartialFiles(mappings)
    /\ pc' = "crashed"
    /\ idx' = idx
    /\ UNCHANGED <<transactions, fatal, saved, persisted, loaded, later>>

\* s without its i-th element.
RemoveAt(s, i) == SubSeq(s, 1, i - 1) \o SubSeq(s, i + 1, Len(s))

\* The program is run again on the same input: a new process with an empty
\* store, and the snapshot GetAccounts returns, from which an account may
\* have been deleted on the server since.
Restart ==
    /\ pc \in {"done", "fatal"}
    /\ ~later
    /\ later' = TRUE
    /\ accounts' \in {accounts} \cup {RemoveAt(accounts, i) : i \in 1..Len(accounts)}
    /\ transactions' = [i \in 1..Len(transactions) |->
                           [transactions[i] EXCEPT !.AccountID = 0]]
    /\ persisted' =
           UNION {
               {[key |-> e.key, name |-> accounts[j].Name] :
                   j \in {k \in 1..Len(accounts) :
                            /\ file.exists
                            /\ MappingLine(e.account, accounts[k].Name)
                                   \in Range(file.lines)}}
               : e \in saved }
    /\ Mappings' = EmptyMap
    /\ loaded' = [accounts |-> accounts', Mappings |-> EmptyMap]
    /\ askedMappings' = {}
    /\ prompts' = <<>>
    /\ created' = {}
    /\ selected' = {}
    /\ saved' = {}
    /\ fatal' = ""
    /\ pc' = "start"
    /\ idx' = 0
    /\ UNCHANGED file

----------------------------------------------------------------------------
(* Inputs of the account resolution                                        *)

\* Transactions of a VISA statement without account number, and of a VISA
\* and a chequing account that both report the number 3.
ResolveTxShapes ==
    { [StatementAccountNumber |-> NilStr, StatementAccountType |-> Visa,
       AccountID |-> 0],
      [StatementAccountNumber |-> Ptr(<<"3">>), StatementAccountType |-> Visa,
       AccountID |-> 0],
      [StatementAccountNumber |-> Ptr(<<"3">>), StatementAccountType |-> Chequing,
       AccountID |-> 0] }

\* Accounts of the server: named like a statement account, or not named.
AccountShapes ==
    { [Name |-> <<"3">>, Type |-> "ACCOUNT_CREDIT_CARD"],
      [Name |-> <<"3">>, Type |-> "ACCOUNT_CHEQUING"],
      [Name |-> <<"u", "n", "k", "n", "o", "w", "n">>, Type |-> "ACCOUNT_CREDIT_CARD"],
      [Name |-> <<>>, Type |-> "ACCOUNT_CREDIT_CARD"] }

\* The snapshots of up to n accounts; the server numbers them 1, 2, ...
Snapshots(n) ==
    UNION {
        { [i \in 1..k |-> [Id |-> i, Name |-> raw[i].Name, Type |-> raw[i].Type]] :
              raw \in [1..k -> AccountShapes] }
        : k \in 0..n }

\* account-mappings.txt does not exist.
NoFile == [exists |-> FALSE, lines |-> <<>>]

\* The mapping file before the first run: none, or one that an earlier Save
\* wrote with one entry.
InitialFiles ==
    {NoFile}
    \cup {[exists |-> TRUE,
           lines |-> SaveLines((e.k :> e.v), <<e.k>>)] :
             e \in {[k |-> <<"3">>, v |-> <<"u", "n", "k", "n", "o", "w", "n">>],
                    [k |-> Unknown, v |-> <<"3">>]}}

\* The state in which main reaches the account resolution.
InitRun(maxTxs, maxSnapshot, files) ==
    /\ statementTxs = <<>>
    /\ csvTxs = <<>>
    /\ result = <<>>
    /\ mergePc = "idle"
    /\ transactions \in UNION {[1..k -> ResolveTxShapes] : k \in 1..maxTxs}
    /\ accounts \in Snapshots(maxSnapshot)
    /\ file \in files
    /\ Mappings = EmptyMap
    /\ askedMappings = {}
    /\ pc = "start"
    /\ idx = 0
    /\ fatal = ""
    /\ prompts = <<>>
    /\ created = {}
    /\ selected = {}
    /\ saved = {}
    /\ persisted = {}
    /\ loaded = [accounts |-> accounts, Mappings |-> EmptyMap]
    /\ later = FALSE
    /\ ParseIdle

InitResolve == InitRun(MaxResolveTxs, MaxSnapshot, InitialFiles)

\* The first run in a directory without mapping file, to be followed by a second.
InitRerun == InitRun(MaxRerunTxs, MaxRerunSnapshot, {NoFile})

NextResolve ==
    \/ (StartRun /\ UNCHANGED <<mergeVars, parseVars>>)
    \/ (FirstPassVisited /\ UNCHANGED <<mergeVars, parseVars>>)
    \/ (FirstPassMatched /\ UNCHANGED <<mergeVars, parseVars>>)
    \/ (FirstPassPromptFails /\ UNCHANGED <<mergeVars, parseVars>>)
    \/ (FirstPassCreateNew /\ UNCHANGED <<mergeVars, parseVars>>)
    \/ (FirstPassCreateFails /\ UNCHANGED <<mergeVars, parseVars>>)
    \/ (FirstPassSelectExisting /\ UNCHANGED <<mergeVars, parseVars>>)
    \/ (SecondPassAssign /\ UNCHANGED <<mergeVars, parseVars>>)
    \/ (SecondPassFatal /\ UNCHANGED <<mergeVars, parseVars>>)

\* One run of the account resolution.
SpecResolve == InitResolve /\ [][NextResolve]_vars

NextRerun ==
    \/ NextResolve
    \/ (Restart /\ UNCHANGED <<mergeVars, parseVars>>)

\* A run of the account resolution and a second run after it.
SpecRerun == InitRerun /\ [][NextRerun]_vars

NextCrash ==
    \/ NextResolve
    \/ (Crash /\ UNCHANGED <<mergeVars, parseVars>>)
    \/ (CrashInSave /\ UNCHANGED <<mergeVars, parseVars>>)

\* One run of the account resolution that may be killed at any point.
SpecCrash == InitResolve /\ [][NextCrash]_vars

----------------------------------------------------------------------------
(* internal/parser: the two normalizers                                    *)
(* Amounts are in hundredths.  A date field is the outcome of time.Parse   *)
(* on it: whether it parsed, and the day.                                  *)

\* strings.ToLower(s), on ASCII
ToLower(s) == [i \in 1..Len(s) |-> FoldChar(s[i])]

\* strings.ReplaceAll(s, ",", "")
RemoveCommas(s) == SelectSeq(s, LAMBDA c : c # ",")

\* strconv.ParseFloat(s, 64) for a decimal string without exponent and with
\* at most two decimals: the error, and the value in hundredths.
ParseFloat(s) ==
    LET signed == s # <<>> /\ s[1] \in {"-", "+"}
        body == IF signed THEN Tail(s) ELSE s
        parts == SplitN2(body, ".")
        int == parts[1]
        frac == IF Len(parts) = 2 THEN parts[2] ELSE <<>>
        digits == int \o frac
        valid == /\ digits # <<>>
                 /\ \A i \in 1..Len(digits) : DigitValue(digits[i]) >= 0
        magnitude == ParseDigits(int, 0) * 100
                         + ParseDigits(SubSeq(frac \o <<"0", "0">>, 1, 2), 0)
    IN  IF ~valid
        THEN [err |-> TRUE, value |-> 0]
        ELSE [err |-> FALSE,
              value |-> IF s[1] = "-" THEN 0 - magnitude ELSE magnitude]

\* The direction and the magnitude both normalizers derive from an amount.
Direction(amount) == IF amount < 0 THEN "OUT" ELSE "IN"
Magnitude(amount) == IF amount < 0 THEN 0 - amount ELSE amount

\* The body of the loop of parseJSONOutput for one PythonTransaction.
JSONTransaction(pt) ==
    [TxDate |-> pt.Date.day,
     TxAmount |-> Magnitude(pt.Amount),
     TxCurrency |-> "CAD",
     TxDirection |-> Direction(pt.Amount),
     StatementAccountNumber |-> pt.AccountNumber,
     StatementAccountType |-> pt.AccountType]

\* PythonParser.parseJSONOutput(output), after json.Unmarshal
parseJSONOutput(pts) ==
    IF \E i \in 1..Len(pts) : ~pts[i].Date.ok
    THEN [err |-> TRUE, transactions |-> <<>>]
    ELSE [err |-> FALSE,
          transactions |-> [i \in 1..Len(pts) |-> JSONTransaction(pts[i])]]

\* if amount == 0 { return nil, nil }
SkipZeroAmount(amount) == amount = 0

\* CSVParser.parseCSVRow(record, colIndices, sourcePath): the error, and the
\* transaction pointer, nil for a skipped row.
parseCSVRow(record) ==
    LET accountType == ToLower(TrimSpace(record.AccountType))
        accountNumber == TrimSpace(record.AccountNumber)
        description == TrimSpace(TrimSpace(record.Desc1) \o <<" ">>
                                     \o TrimSpace(record.Desc2))
        cadStr == TrimSpace(record.CAD)
        usdStr == TrimSpace(record.USD)
        parsed == IF cadStr # <<>> THEN ParseFloat(RemoveCommas(cadStr))
                  ELSE ParseFloat(RemoveCommas(usdStr))
        currency == IF cadStr # <<>> THEN "CAD" ELSE "USD"
        failed == [err |-> TRUE, tx |-> <<>>]
    IN  IF accountType = <<>> THEN failed
        ELSE IF accountNumber = <<>> THEN failed
        ELSE IF ~record.Date.ok THEN failed
        ELSE IF description = <<>> THEN failed
        ELSE IF cadStr = <<>> /\ usdStr = <<>> THEN failed
        ELSE IF parsed.err THEN failed
        ELSE IF SkipZeroAmount(parsed.value) THEN [err |-> FALSE, tx |-> <<>>]
        ELSE [err |-> FALSE,
              tx |-> <<[TxDate |-> record.Date.day,
                        TxAmount |-> Magnitude(parsed.value),
                        TxCurrency |-> currency,
                        TxDirection |-> Direction(parsed.value),
                        StatementAccountNumber |-> Ptr(accountNumber),
                        StatementAccountType |-> accountType]>>]

RECURSIVE ParseRows(_, _)
\* The loop of ParseCSV over records[1:] from row i on.
ParseRows(records, i) ==
    IF i > Len(records)
    THEN <<>>
    ELSE LET out == parseCSVRow(records[i])
         IN  (IF ~out.err /\ out.tx # <<>> THEN out.tx ELSE <<>>)
                 \o ParseRows(records, i + 1)

\* main: pythonParser.ParseStatements returns the transactions.
ParseStatementsReturns ==
    /\ parsePc = "pdf"
    /\ ~parseJSONOutput(jsonTransactions).err
    /\ statementTxs' = parseJSONOutput(jsonTransactions).transactions
    /\ parsePc' = "csv"
    /\ UNCHANGED <<csvTxs, result, mergePc, jsonTransactions, csvRecords,
                   resolveVars>>

\* main: log.Fatalf("parse failed")
ParseStatementsFails ==
    /\ parsePc = "pdf"
    /\ parseJSONOutput(jsonTransactions).err
    /\ parsePc' = "fatal"
    /\ UNCHANGED <<mergeVars, jsonTransactions, csvRecords, resolveVars>>

\* main: csvParser.ParseCSV returns the transactions.
ParseCSVReturns ==
    /\ parsePc = "csv"
    /\ Len(csvRecords) >= 1
    /\ csvTxs' = ParseRows(csvRecords, 1)
    /\ parsePc' = "done"
    /\ UNCHANGED <<statementTxs, result, mergePc, jsonTransactions, csvRecords,
                   resolveVars>>

\* main: log.Fatalf("CSV parse failed"), the file has no data rows.
ParseCSVFails ==
    /\ parsePc = "csv"
    /\ Len(csvRecords) < 1
    /\ parsePc' = "fatal"
    /\ UNCHANGED <<mergeVars, jsonTransactions, csvRecords, resolveVars>>

\* A date field that parses to day 1, and one that does not parse.
GoodDate == [ok |-> TRUE, day |-> 1]
BadDate == [ok |-> FALSE, day |-> 0]

\* The transactions of the Python output: an outgoing, a zero and an incoming
\* amount, and one whose date does not parse.
JsonShapes ==
    { [Date |-> GoodDate, Amount |-> a, AccountNumber |-> Ptr(<<"3">>),
       AccountType |-> Visa] : a \in {0 - 150, 0, 200} }
    \cup { [Date |-> BadDate, Amount |-> 200, AccountNumber |-> NilStr,
            AccountType |-> Visa] }

\* A well-formed CSV row with the amount columns cad and usd.
Row(cad, usd) ==
    [AccountType |-> <<"V", "i", "s", "a">>, AccountNumber |-> <<"3">>,
     Date |-> GoodDate, Desc1 |-> <<"a">>, Desc2 |-> <<>>,
     CAD |-> cad, USD |-> usd]

\* The rows of the CSV file: amounts that are zero, negative, positive with a
\* thousands separator, in USD only, unparseable or missing, and a row
\* without account number.
RowShapes ==
    { Row(<<"0", ".", "0", "0">>, <<"0", ".", "0", "0">>),
      Row(<<" ", "-", "0">>, <<>>),
      Row(<<"-", "1", ".", "5", "0">>, <<>>),
      Row(<<"1", ",", "0", "0", "0", ".", "0", "0">>, <<>>),
      Row(<<>>, <<"2">>),
      Row(<<>>, <<"0">>),
      Row(<<"x">>, <<>>),
      Row(<<>>, <<>>),
      [Row(<<"2">>, <<>>) EXCEPT !.AccountNumber = <<" ">>] }

\* The sequences of up to n elements of S.
SeqsUpTo(S, n) == UNION {[1..k -> S] : k \in 0..n}

InitParse ==
    /\ jsonTransactions \in SeqsUpTo(JsonShapes, MaxJsonTxs)
    /\ csvRecords \in SeqsUpTo(RowShapes, MaxCsvRows)
    /\ parsePc = "pdf"
    /\ statementTxs = <<>>
    /\ csvTxs = <<>>
    /\ result = <<>>
    /\ mergePc = "idle"
    /\ ResolveIdle

NextParse ==
    \/ ParseStatementsReturns
    \/ ParseStatementsFails
    \/ ParseCSVReturns
    \/ ParseCSVFails

\* main parses the statements and then the CSV file.
SpecParse == InitParse /\ [][NextParse]_vars

----------------------------------------------------------------------------
(* internal/mapping: a store that is written and loaded again              *)

\* Statement account numbers passed to AddMapping: digits, and strings with
\* a colon, a leading '#' and a leading blank.
StoreKeys ==
    { <<"3">>, <<"a", ":", "b">>, <<"#", "3">>, <<" ", "3">> }

\* Account names passed to AddMapping: plain, with a trailing blank, with a
\* colon, and empty.
StoreNames ==
    { <<"x">>, <<"x", " ">>, <<"a", ":", "b">>, <<>> }

InitStore ==
    /\ statementTxs = <<>>
    /\ csvTxs = <<>>
    /\ result = <<>>
    /\ mergePc = "idle"
    /\ ParseIdle
    /\ transactions = <<>>
    /\ accounts = <<>>
    /\ file = NoFile
    /\ Mappings = NewStore(file)
    /\ askedMappings = {}
    /\ pc = "store"
    /\ idx = 0
    /\ fatal = ""
    /\ prompts = <<>>
    /\ created = {}
    /\ selected = {}
    /\ saved = {}
    /\ persisted = {}
    /\ loaded = [accounts |-> <<>>, Mappings |-> EmptyMap]
    /\ later = FALSE

\* mappingStore.AddMapping(k, v) is called; the store is used no further once
\* a call returned an error.
StoreAddMapping ==
    /\ pc = "store"
    /\ idx < MaxAddMappings
    /\ \E k \in StoreKeys, v \in StoreNames :
           \E out \in AddMapping(Mappings, k, v, file) :
               /\ Mappings' = out.Mappings
               /\ file' = out.file
               /\ pc' = IF out.err THEN "storeFailed" ELSE "store"
    /\ idx' = idx + 1
    /\ UNCHANGED <<transactions, accounts, askedMappings, fatal, prompts,
                   created, selected, saved, persisted, loaded, later, mergeVars, parseVars>>

NextStore == StoreAddMapping

\* A store that takes a sequence of AddMapping calls.
SpecStore == InitStore /\ [][NextStore]_vars

----------------------------------------------------------------------------
(* Properties of the merge                                                 *)

\* The last four characters of s, all of s when it is shorter.
Last4(s) == IF Len(s) <= 4 THEN s ELSE SubSeq(s, Len(s) - 3, Len(s))

\* s ends with t.
EndsWith(s, t) == \E k \in 0..Len(s) : SubSeq(s, k + 1, Len(s)) = t

\* The dates of the statement transactions whose account number ends with suffix.
PrimaryDates(suffix) ==
    {statementTxs[i].TxDate :
        i \in {k \in 1..Len(statementTxs) :
                 /\ statementTxs[k].StatementAccountNumber # NilStr
                 /\ EndsWith(Deref(statementTxs[k].StatementAccountNumber), suffix)}}

MaxOf(S) == CHOOSE m \in S : \A x \in S : x <= m

\* The primary transactions a CSV transaction is compared with; none when it
\* has no account number.
MatchingPrimaryDates(tx) ==
    IF tx.StatementAccountNumber = NilStr
    THEN {}
    ELSE PrimaryDates(Last4(Deref(tx.StatementAccountNumber)))

\* The Account Identity Key of a transaction: (number or Unknown, type).
IdentityKey(tx) ==
    <<IF tx.StatementAccountNumber = NilStr
      THEN <<"U", "n", "k", "n", "o", "w", "n">>
      ELSE Deref(tx.StatementAccountNumber),
      tx.StatementAccountType>>

\* C1: a CSV transaction whose account suffix matches a statement account is
\* absent from the result when dated on or before the latest matching
\* statement date, and present when dated strictly after it.
C1_CutoffFilter ==
    mergePc = "done" =>
        \A j \in 1..Len(csvTxs) :
            LET tx == csvTxs[j]
                dates == MatchingPrimaryDates(tx)
            IN  dates # {} =>
                    /\ tx.TxDate <= MaxOf(dates) => tx \notin Range(result)
                    /\ tx.TxDate > MaxOf(dates) => tx \in Range(result)

\* C1 witness: one matched CSV transaction was excluded and another, of a
\* full-length account number, was included.
C1_Witness ==
    /\ mergePc = "done"
    /\ \E j, k \in 1..Len(csvTxs) :
           /\ MatchingPrimaryDates(csvTxs[j]) # {}
           /\ csvTxs[j] \notin Range(result)
           /\ MatchingPrimaryDates(csvTxs[k]) # {}
           /\ Len(Deref(csvTxs[k].StatementAccountNumber)) > 4
           /\ csvTxs[k] \in Range(result)

\* C2: when no Account Identity Key occurs on both sides, the merge returns
\* the statement transactions followed by the CSV transactions, unchanged.
C2_DisjointIdentityUnchanged ==
    (/\ mergePc = "done"
     /\ {IdentityKey(statementTxs[i]) : i \in 1..Len(statementTxs)}
            \cap {IdentityKey(csvTxs[j]) : j \in 1..Len(csvTxs)} = {})
        => result = statementTxs \o csvTxs

\* C3: a CSV transaction with no matching statement transaction, also one
\* without an account number, is kept whatever its date.
C3_NoCutoffKept ==
    mergePc = "done" =>
        \A j \in 1..Len(csvTxs) :
            MatchingPrimaryDates(csvTxs[j]) = {} => csvTxs[j] \in Range(result)

\* C4: the surviving CSV transactions keep the relative order of the CSV
\* input and come after every statement transaction.
C4_StableSecondaryOrder ==
    mergePc = "done" =>
        \A p, q \in 1..Len(result) :
            (p < q /\ result[p].ptr > Len(statementTxs))
                => /\ result[q].ptr > Len(statementTxs)
                   /\ result[p].ptr < result[q].ptr

\* C5: the first len(statementTxs) elements of the result are the statement
\* transactions in order; with no CSV transactions the result is exactly them.
C5_PrimaryPrefix ==
    mergePc = "done" =>
        /\ Len(result) >= Len(statementTxs)
        /\ SubSeq(result, 1, Len(statementTxs)) = statementTxs
        /\ csvTxs = <<>> => result = statementTxs

\* C5 witness: two statement transactions were merged with a CSV transaction
\* that was kept.
C5_Witness ==
    /\ mergePc = "done"
    /\ Len(statementTxs) = 2
    /\ Len(result) = 3

----------------------------------------------------------------------------
(* Properties of the account resolution                                    *)

\* C6: when both passes complete without log.Fatalf, the AccountID of every
\* transaction is the Id of an account of the final snapshot.
C6_ResolvedInSnapshot ==
    pc = "done" =>
        \A i \in 1..Len(transactions) :
            \E j \in 1..Len(accounts) : transactions[i].AccountID = accounts[j].Id

\* C6 witness: a run completed in which the prompt created an account and
\* two transactions were assigned.
C6_Witness ==
    /\ pc = "done"
    /\ created # {}
    /\ Len(transactions) = 2

\* C7: within one run PromptForAccountMapping is called at most once for an
\* Account Identity Key.
C7_PromptOncePerKey ==
    \A i, j \in 1..Len(prompts) : prompts[i] = prompts[j] => i = j

\* C7 witness: the first pass is over two transactions of one key, and the
\* prompt was called once.
C7_Witness ==
    /\ pc \in {"pass2", "done"}
    /\ Len(transactions) = 2
    /\ MappingKey(transactions[1]) = MappingKey(transactions[2])
    /\ Len(prompts) = 1

\* C8 as claimed: a later run does not call the prompt for a key whose
\* mapping an earlier run persisted.
C8_NoPromptForPersisted ==
    later => \A p \in persisted : p.key \notin Range(prompts)

\* C8 as amended: a later run does not call the prompt for a key whose
\* mapping an earlier run persisted, provided the run's snapshot has an
\* account whose name equals the persisted, non-empty target name ignoring
\* case.
C8_NoPromptWhilePersistedResolves ==
    later =>
        \A p \in persisted :
            (/\ p.name # <<>>
             /\ \E j \in 1..Len(loaded.accounts) :
                    EqualFold(loaded.accounts[j].Name, p.name))
                => p.key \notin Range(prompts)

\* C8 witness: a later run completed without a prompt for a key that the
\* earlier run persisted and whose target is still in the snapshot.
C8_Witness ==
    /\ later
    /\ pc = "done"
    /\ prompts = <<>>
    /\ \E p \in persisted :
           /\ p.name # <<>>
           /\ \E j \in 1..Len(loaded.accounts) :
                  EqualFold(loaded.accounts[j].Name, p.name)
           /\ \E i \in 1..Len(transactions) : MappingKey(transactions[i]) = p.key

\* C9: when the prompt answered "create new" for a key, every transaction of
\* the key ends the run with the Id of the account CreateAccount returned.
C9_CreatedAccountAssigned ==
    pc = "done" =>
        \A c \in created : \A i \in 1..Len(transactions) :
            MappingKey(transactions[i]) = c.key => transactions[i].AccountID = c.id

\* C10: a store entry whose target name matches no account does not abort
\* the run of a transaction that the match by name and type resolves.
C10_StaleMappingNoAbort ==
    \A i \in 1..Len(transactions) :
        LET tx == transactions[i]
            target == FindMapping(loaded.Mappings, AccountName(tx))
        IN  (/\ target # <<>>
             /\ \A j \in 1..Len(accounts) : ~EqualFold(accounts[j].Name, target)
             /\ findMatchingAccount(accounts, AccountName(tx),
                                    tx.StatementAccountType) # NilAccount)
                => ~(pc = "fatal" /\ idx = i
                     /\ fatal = "no account found for mapping")

\* C11 as claimed: when the first pass is over, the store has an entry for
\* the account of every transaction.
C11_EveryKeyMapped ==
    pc = "pass2" =>
        \A i \in 1..Len(transactions) :
            AccountName(transactions[i]) \in DOMAIN Mappings

\* C11 as amended: when the first pass is over, every transaction has a store
\* entry for its account or an account that the match by name and type
\* finds; the second pass assigns a transaction that has no target name in
\* the store by that match, and ends with log.Fatalf only when the lookup it
\* used found no account.
C11_MappedOrAutoMatched ==
    /\ pc = "pass2" =>
           \A i \in 1..Len(transactions) :
               \/ AccountName(transactions[i]) \in DOMAIN Mappings
               \/ findMatchingAccount(accounts, AccountName(transactions[i]),
                      transactions[i].StatementAccountType) # NilAccount
    /\ pc = "done" =>
           \A i \in 1..Len(transactions) :
               FindMapping(Mappings, AccountName(transactions[i])) = <<>> =>
                   transactions[i].AccountID =
                       findMatchingAccount(accounts, AccountName(transactions[i]),
                           transactions[i].StatementAccountType).Id
    /\ (pc = "fatal" /\ fatal = "no account found for transaction") =>
           /\ FindMapping(Mappings, AccountName(transactions[idx])) = <<>>
           /\ findMatchingAccount(accounts, AccountName(transactions[idx]),
                  transactions[idx].StatementAccountType) = NilAccount

\* C11 witness: a run completed in which one transaction was assigned by the
\* match by name and type, with no store entry, and another by a store entry
\* that the prompt wrote.
C11_Witness ==
    /\ pc = "done"
    /\ \E i, j \in 1..Len(transactions) :
           /\ AccountName(transactions[i]) \notin DOMAIN Mappings
           /\ transactions[i].AccountID # 0
           /\ AccountName(transactions[j]) \in DOMAIN Mappings
           /\ Len(prompts) = 1

\* C12: after a crash, also one inside Store.Save, the file still holds the
\* mapping of every account for which an earlier AddMapping of the run
\* returned nil; only the mapping being saved may be lost.
C12_CrashKeepsConfirmed ==
    pc = "crashed" =>
        \A a \in {e.account : e \in saved} :
            \/ (idx <= Len(transactions) /\ a = AccountName(transactions[idx]))
            \/ \E e \in saved :
                   /\ e.account = a
                   /\ a \in DOMAIN NewStore(file)
                   /\ NewStore(file)[a] = e.name

\* C13: the store is keyed by the pair (account number or Unknown, account
\* type): a key for which the store this run loaded has no entry and the
\* match by name and type finds no account is resolved by its own prompt,
\* not by the entry of a key with the same account number and another type.
C13_KeyedByNumberAndType ==
    pc \in {"pass2", "done"} =>
        \A i \in 1..Len(transactions) :
            LET tx == transactions[i]
            IN  (/\ AccountName(tx) \notin DOMAIN loaded.Mappings
                 /\ findMatchingAccount(accounts, AccountName(tx),
                        tx.StatementAccountType) = NilAccount)
                    => MappingKey(tx) \in Range(prompts)

\* C14: no transaction with amount zero comes out of a normalizer, neither
\* of parseJSONOutput nor of ParseCSV.
C14_NoZeroAmount ==
    /\ \A i \in 1..Len(statementTxs) : statementTxs[i].TxAmount # 0
    /\ \A i \in 1..Len(csvTxs) : csvTxs[i].TxAmount # 0

\* The keys of this run whose AddMapping returned an error: the prompt was
\* answered for them, no save is recorded, and the run did not end in the
\* prompt, in CreateAccount or in the search of the selected account.
FailedSaveKeys ==
    {K \in Range(prompts) :
        /\ K \notin {e.key : e \in saved}
        /\ ~(/\ pc = "fatal"
             /\ fatal \in {"mapping prompt failed", "create account failed",
                           "selected account not found"}
             /\ K = prompts[Len(prompts)])}

\* C15: when AddMapping returns an error in the first pass, the entry stays
\* in the map, the first pass goes on, and a completed second pass has
\* assigned the transactions of the key through that entry.
C15_SaveFailureOnlyLogged ==
    \A K \in FailedSaveKeys :
        \A i \in 1..Len(transactions) :
            LET tx == transactions[i]
                target == FindMapping(Mappings, AccountName(tx))
            IN  MappingKey(tx) = K =>
                    /\ AccountName(tx) \in DOMAIN Mappings
                    /\ K \in {c.key : c \in created} => target = AccountName(tx)
                    /\ pc = "pass1" =>
                           \E j \in 1..(idx - 1) : MappingKey(transactions[j]) = K
                    /\ pc = "done" =>
                           /\ target # <<>>
                           /\ tx.AccountID = ResolveAccount(target, accounts).Id

\* C15 witness: a run completed although the AddMapping of a key returned an
\* error, and the file holds no line for the key.
C15_Witness ==
    /\ pc = "done"
    /\ FailedSaveKeys # {}
    /\ ~file.exists
    /\ \A i \in 1..Len(transactions) : transactions[i].AccountID # 0

\* C16: a step in which the prompt returns an error ends the run at once: no
\* transaction has an AccountID, no key after the prompted one was visited,
\* and no step of the run follows.
C16_PromptErrorAborts ==
    [][/\ fatal' = "mapping prompt failed" =>
            /\ pc' = "fatal"
            /\ \A i \in 1..Len(transactions') : transactions'[i].AccountID = 0
            /\ askedMappings' =
                   {MappingKey(transactions'[i]) : i \in 1..idx'}
            /\ prompts'[Len(prompts')] = MappingKey(transactions'[idx'])
       /\ fatal = "mapping prompt failed" => UNCHANGED resolveVars]_vars

\* C16 witness: the prompt for the first of two keys returned an error.
C16_Witness ==
    /\ pc = "fatal"
    /\ fatal = "mapping prompt failed"
    /\ idx = 1
    /\ Len(transactions) = 2
    /\ MappingKey(transactions[1]) # MappingKey(transactions[2])

\* The dates of the statement transactions whose last-4 key equals key.
PrimaryDatesOfKey(key) ==
    {statementTxs[i].TxDate :
        i \in {k \in 1..Len(statementTxs) :
                 /\ statementTxs[k].StatementAccountNumber # NilStr
                 /\ Last4(Deref(statementTxs[k].StatementAccountNumber)) = key}}

\* The cutoff of a set of dates: the latest, none for the empty set.
CutoffOf(dates) == IF dates = {} THEN NilDate ELSE MaxOf(dates)

\* C17 as claimed: the cutoff of the group of a CSV transaction is the
\* latest date of the statement transactions whose last-4 key (the number
\* itself when shorter) equals the group's key, and the transaction is kept
\* exactly when it is after that cutoff or there is none.
C17_CutoffByEqualKey ==
    mergePc = "done" =>
        \A j \in 1..Len(csvTxs) :
            csvTxs[j].StatementAccountNumber # NilStr =>
                LET key == Last4(Deref(csvTxs[j].StatementAccountNumber))
                    cutoff == CutoffOf(PrimaryDatesOfKey(key))
                IN  /\ FindLatestTransactionDate(statementTxs, key) = cutoff
                    /\ csvTxs[j] \in Range(result)
                           <=> (cutoff = NilDate \/ csvTxs[j].TxDate > cutoff)

\* C17 as amended: the cutoff is the latest date of the statement
\* transactions whose account number ends with the group's key; a CSV number
\* shorter than four characters is its own key and is matched by every
\* statement number that ends with it.
C17_CutoffBySuffixMatch ==
    mergePc = "done" =>
        \A j \in 1..Len(csvTxs) :
            csvTxs[j].StatementAccountNumber # NilStr =>
                LET key == Last4(Deref(csvTxs[j].StatementAccountNumber))
                    cutoff == CutoffOf(PrimaryDates(key))
                IN  /\ FindLatestTransactionDate(statementTxs, key) = cutoff
                    /\ csvTxs[j] \in Range(result)
                           <=> (cutoff = NilDate \/ csvTxs[j].TxDate > cutoff)

\* C17 witness: a CSV transaction with a number shorter than four characters
\* was excluded by the date of a statement transaction whose longer number
\* ends with it.
C17_Witness ==
    /\ mergePc = "done"
    /\ \E j \in 1..Len(csvTxs) :
           /\ csvTxs[j].StatementAccountNumber # NilStr
           /\ Len(Deref(csvTxs[j].StatementAccountNumber)) < 4
           /\ PrimaryDatesOfKey(Deref(csvTxs[j].StatementAccountNumber)) = {}
           /\ PrimaryDates(Deref(csvTxs[j].StatementAccountNumber)) # {}
           /\ csvTxs[j] \notin Range(result)

\* C18: after AddMapping calls that all returned nil, a fresh store loaded
\* from the file finds for every key the target name the store in memory
\* finds.
C18_SaveLoadRoundTrip ==
    pc = "store" =>
        \A k \in StoreKeys \cup DOMAIN Mappings \cup DOMAIN NewStore(file) :
            FindMapping(NewStore(file), k) = FindMapping(Mappings, k)

\* C19: when the prompt selected an existing account for a key, every
\* transaction of the key ends a completed run with the Id that was selected.
C19_SelectedAccountAssigned ==
    pc = "done" =>
        \A c \in selected : \A i \in 1..Len(transactions) :
            MappingKey(transactions[i]) = c.key => transactions[i].AccountID = c.id

====
